---- MODULE Spec2Model ----
(***************************************************************************)
(* Browser front end of the SME financial-health assessment product:       *)
(* the local history store (utils/history), the HTTP client wrapper        *)
(* (api/client), the assessment gateway (api/assessment) and the result    *)
(* orchestration of ResultsPage (fetchData inside its useEffect).          *)
(*                                                                         *)
(* JavaScript values that may be null are modelled as sequences of length  *)
(* at most one: <<>> is null, <<v>> is the value v.                        *)
(***************************************************************************)
EXTENDS Integers, Sequences, FiniteSets, TLC

VARIABLES
    storage,    \* localStorage entry under HISTORY_KEY
    init0,      \* the value storage had when the page was loaded
    log,        \* history-store calls made so far, oldest first
    last,       \* the latest history-store call and what it did
    routeId,    \* ResultsPage: useParams().id
    data,       \* ResultsPage: useState data
    reportMd,   \* ResultsPage: useState reportMd
    aiMd,       \* ResultsPage: useState aiMd
    loading,    \* ResultsPage: useState loading
    error,      \* ResultsPage: useState error
    runs,       \* the fetchData invocations started so far
    nRuns,      \* how many fetchData invocations were started
    http,       \* the latest direct call of request() or of a gateway function
    upload      \* UploadPage: error, loading and the handleSubmit invocations

vars == <<storage, init0, log, last, routeId, data, reportMd, aiMd, loading,
          error, runs, nRuns, http, upload>>

storeVars == <<storage, init0, log, last>>
viewVars == <<routeId, data, reportMd, aiMd, loading, error>>
runVars == <<runs, nRuns>>
pageVars == <<http, upload>>

----------------------------------------------------------------------------
(* Bounds of the model *)

\* history-store calls in one behaviour
MaxCalls == 4
\* fetchData invocations in one behaviour
MaxRuns == 2
\* length of the history list found in localStorage at page load
MaxInitLen == 2

----------------------------------------------------------------------------
(* Values *)

Ids == {"a", "b", "c"}
Companies == {"X", "Y"}

\* types.ts HistoryItem
HistoryItem(id, company) ==
    [id |-> id, company |-> company, industry |-> "Retail",
     created_at |-> "2024-01-01"]

HistoryItems == {HistoryItem(i, c) : i \in Ids, c \in Companies}

RECURSIVE Filter(_, _)
\* Array.prototype.filter with the predicate h.id !== id
Filter(list, id) ==
    IF list = <<>> THEN <<>>
    ELSE IF Head(list).id # id
         THEN <<Head(list)>> \o Filter(Tail(list), id)
         ELSE Filter(Tail(list), id)

RECURSIVE Reverse(_)
Reverse(s) == IF s = <<>> THEN <<>> ELSE Reverse(Tail(s)) \o <<Head(s)>>

CountId(list, id) == Cardinality({k \in 1..Len(list) : list[k].id = id})
NoDuplicateIds(list) == \A i \in Ids : CountId(list, i) <= 1

----------------------------------------------------------------------------
(* localStorage and JSON *)

\* What localStorage holds under the key: nothing, or a text.  A text is
\* described by what JSON.parse makes of it.
Absent == [kind |-> "absent", items |-> <<>>]
EmptyText == [kind |-> "emptytext", items |-> <<>>]
Unparseable == [kind |-> "unparseable", items |-> <<>>]
JsonText(type, items) == [kind |-> type, items |-> items]

\* JSON texts that are no array: null, {}, 0 and "x"
NonArrayTypes == {"null", "object", "number", "string"}

\* JSON.stringify of an array of history items
JSONstringify(list) == JsonText("array", list)

\* localStorage.getItem: null when the key is absent, else the text
getItem(st) == IF st.kind = "absent" THEN <<>> ELSE <<st>>

\* JavaScript truthiness of getItem's result: null and "" are falsy
Truthy(stored) == stored # <<>> /\ stored[1].kind # "emptytext"

\* JSON.parse: throws on a text that is no JSON, else the value it denotes
JSONparse(text) ==
    IF text.kind \in {"unparseable", "emptytext"}
    THEN [threw |-> TRUE, value |-> [type |-> "undefined", items |-> <<>>]]
    ELSE [threw |-> FALSE, value |-> [type |-> text.kind, items |-> text.items]]

EmptyArray == [type |-> "array", items |-> <<>>]

\* getHistory(): the value it returns (it never throws)
getHistory(st) ==
    LET stored == getItem(st) IN
    IF ~Truthy(stored) THEN EmptyArray
    ELSE LET parsed == JSONparse(stored[1]) IN
         IF parsed.threw THEN EmptyArray ELSE parsed.value

\* the TypeError of current.filter(...) when current is no array
FilterTypeError(current) ==
    IF current.type = "null"
    THEN "Cannot read properties of null (reading 'filter')"
    ELSE "current.filter is not a function"

\* addToHistory without the filter: the item is prepended to the list as read
addToHistoryNoFilter(st, item) ==
    LET current == getHistory(st) IN
    IF current.type # "array"
    THEN [threw |-> TRUE, storage |-> st, message |-> FilterTypeError(current)]
    ELSE [threw |-> FALSE, message |-> "",
          storage |-> JSONstringify(<<item>> \o current.items)]

\* addToHistory appending instead of prepending
addToHistoryAppend(st, item) ==
    LET current == getHistory(st) IN
    IF current.type # "array"
    THEN [threw |-> TRUE, storage |-> st, message |-> FilterTypeError(current)]
    ELSE [threw |-> FALSE, message |-> "",
          storage |-> JSONstringify(Filter(current.items, item.id) \o <<item>>)]

\* addToHistory keeping the stored entry when the id is already present
addToHistoryKeepOld(st, item) ==
    LET current == getHistory(st) IN
    IF current.type # "array"
    THEN [threw |-> TRUE, storage |-> st, message |-> FilterTypeError(current)]
    ELSE IF CountId(current.items, item.id) > 0
         THEN [threw |-> FALSE, message |-> "",
               storage |-> JSONstringify(current.items)]
         ELSE [threw |-> FALSE, message |-> "",
               storage |-> JSONstringify(<<item>> \o current.items)]

\* addToHistory(item): whether it throws, and the storage it leaves.
\* current.filter throws a TypeError when current is no array.
addToHistory(st, item) ==
    LET current == getHistory(st) IN
    IF current.type # "array"
    THEN [threw |-> TRUE, storage |-> st, message |-> FilterTypeError(current)]
    ELSE LET filtered == Filter(current.items, item.id)
             updated == <<item>> \o filtered
         IN [threw |-> FALSE, message |-> "",
             storage |-> JSONstringify(updated)]

\* clearHistory that leaves the entry in place
clearHistoryKeep(st) == st

\* clearHistory(): localStorage.removeItem
clearHistory(st) == Absent

----------------------------------------------------------------------------
(* HTTP client wrapper: request() *)

\* the assessment record the backend holds for an id
AssessmentResponse(id, company) ==
    [id |-> id, company |-> company, industry |-> "Retail", lang |-> "en",
     created_at |-> "2024-01-01", result_json |-> "result"]

NoPayload == [assessment |-> <<>>, report_md |-> <<>>, ai_md |-> <<>>]

\* A body: whether it is JSON, its detail field, and its other fields.
\* A detail that is no string is described by its JSON text.
Body(json, detail, payload) ==
    [json |-> json, detail |-> detail, payload |-> payload]

DetailString(str) == <<[type |-> "string", text |-> str]>>
DetailObject(text) == <<[type |-> "object", text |-> text]>>
\* a detail that is a number, a boolean or null, by its JSON text
DetailOther(type, text) == <<[type |-> type, text |-> text]>>

\* What fetch() settles to: a rejection (net = FALSE) or a Response
NetworkFailure ==
    [net |-> FALSE, ok |-> FALSE, status |-> 0, statusText |-> "",
     ctJson |-> FALSE, body |-> Body(FALSE, <<>>, NoPayload)]
Response(ok, status, statusText, ctJson, body) ==
    [net |-> TRUE, ok |-> ok, status |-> status, statusText |-> statusText,
     ctJson |-> ctJson, body |-> body]

FailedToFetch == "Failed to fetch"
UnexpectedToken == "Unexpected token < in JSON at position 0"

\* JSON.stringify(errorData.detail) of a detail that is no string
StringifyDetail(d) == d.text

\* JavaScript truthiness of errorData.detail
DetailTruthy(detail) ==
    /\ detail # <<>>
    /\ ~(detail[1].type = "string" /\ detail[1].text = "")
    /\ ~(detail[1].type = "number" /\ detail[1].text = "0")
    /\ ~(detail[1].type = "boolean" /\ detail[1].text = "false")
    /\ detail[1].type # "null"

Resolved(value) == [ok |-> TRUE, value |-> value, message |-> ""]
Rejected(message) ==
    [ok |-> FALSE, value |-> [isText |-> FALSE, fields |-> NoPayload],
     message |-> message]

\* request() that never reads the body of a failed response
requestStatusOnly(resp) ==
    IF ~resp.net THEN Rejected(FailedToFetch)
    ELSE IF ~resp.ok
    THEN Rejected("Error " \o ToString(resp.status) \o ": " \o resp.statusText)
    ELSE IF resp.ctJson
         THEN IF resp.body.json
              THEN Resolved([isText |-> FALSE, fields |-> resp.body.payload])
              ELSE Rejected(UnexpectedToken)
         ELSE Resolved([isText |-> TRUE, fields |-> NoPayload])

\* request(path, options): what the promise settles to, given what fetch
\* settled to
request(resp) ==
    IF ~resp.net THEN Rejected(FailedToFetch)
    ELSE IF ~resp.ok
    THEN LET statusMessage ==
                 "Error " \o ToString(resp.status) \o ": " \o resp.statusText
             errorMessage ==
                 IF resp.body.json /\ DetailTruthy(resp.body.detail)
                 THEN IF resp.body.detail[1].type = "string"
                      THEN resp.body.detail[1].text
                      ELSE StringifyDetail(resp.body.detail[1])
                 ELSE statusMessage
         IN Rejected(errorMessage)
    ELSE IF resp.ctJson
         THEN IF resp.body.json
              THEN Resolved([isText |-> FALSE, fields |-> resp.body.payload])
              ELSE Rejected(UnexpectedToken)
         ELSE Resolved([isText |-> TRUE, fields |-> NoPayload])

----------------------------------------------------------------------------
(* Remote assessment gateway *)

\* the field passed on without the || '' default
OrUndefined(field) == IF field = <<>> THEN "undefined" ELSE field[1]

\* x || ''
OrEmpty(field) == IF field = <<>> THEN "" ELSE field[1]

\* What a gateway promise settles to
Fulfilled(rec, text) ==
    [st |-> "fulfilled", rec |-> rec, text |-> text, message |-> ""]
Failed(message) ==
    [st |-> "rejected", rec |-> <<>>, text |-> "", message |-> message]
Pending == [st |-> "pending", rec |-> <<>>, text |-> "", message |-> ""]
Unsent == [st |-> "unsent", rec |-> <<>>, text |-> "", message |-> ""]

\* getAssessment(id)
getAssessment(resp) ==
    LET r == request(resp) IN
    IF r.ok THEN Fulfilled(r.value.fields.assessment, "") ELSE Failed(r.message)

\* getAssessmentReport(id)
getAssessmentReport(resp) ==
    LET response == request(resp) IN
    IF response.ok THEN Fulfilled(<<>>, OrEmpty(response.value.fields.report_md))
    ELSE Failed(response.message)

\* getAssessmentAI(id)
getAssessmentAI(resp) ==
    LET response == request(resp) IN
    IF response.ok THEN Fulfilled(<<>>, OrEmpty(response.value.fields.ai_md))
    ELSE Failed(response.message)

(* What the backend and the network may answer *)

ErrorBodies ==
    {Body(FALSE, <<>>, NoPayload),
     Body(TRUE, <<>>, NoPayload),
     Body(TRUE, DetailString("not found"), NoPayload),
     Body(TRUE, DetailString(""), NoPayload),
     Body(TRUE, DetailObject("{\"loc\":\"id\"}"), NoPayload),
     Body(TRUE, DetailOther("number", "0"), NoPayload),
     Body(TRUE, DetailOther("number", "7"), NoPayload),
     Body(TRUE, DetailOther("boolean", "false"), NoPayload),
     Body(TRUE, DetailOther("null", "null"), NoPayload)}

ErrorResponses ==
    {NetworkFailure} \cup
    {Response(FALSE, 404, "Not Found", TRUE, b) : b \in ErrorBodies} \cup
    {Response(FALSE, 422, "Unprocessable Entity", ct, b) :
        ct \in BOOLEAN, b \in ErrorBodies} \cup
    {Response(FALSE, 500, "Internal Server Error", FALSE, Body(FALSE, <<>>, NoPayload))}

\* the failures the orchestration is exercised with
NotFound == Response(FALSE, 404, "Not Found", TRUE,
                     Body(TRUE, DetailString("not found"), NoPayload))
ServerError == Response(FALSE, 500, "Internal Server Error", FALSE,
                        Body(FALSE, <<>>, NoPayload))

JsonOk(payload) == Response(TRUE, 200, "OK", TRUE, Body(TRUE, <<>>, payload))

\* GET /api/assessments/{id}
AssessmentResponses(id) ==
    {NetworkFailure, NotFound, ServerError} \cup
    {JsonOk([NoPayload EXCEPT !.assessment = <<AssessmentResponse(id, c)>>]) :
        c \in Companies}

ReportTexts == {"", "# report"}
AiTexts == {"", "# ai"}

\* answers of the two text endpoints that are no JSON object with the field
OtherOkResponses ==
    {JsonOk(NoPayload),
     Response(TRUE, 200, "OK", FALSE, Body(FALSE, <<>>, NoPayload)),
     Response(TRUE, 200, "OK", TRUE, Body(FALSE, <<>>, NoPayload))}

\* GET /api/assessments/{id}/report
ReportResponses ==
    {NetworkFailure} \cup OtherOkResponses \cup
    {JsonOk([NoPayload EXCEPT !.report_md = <<t>>]) : t \in ReportTexts}

\* GET /api/assessments/{id}/ai
AiResponses ==
    {NetworkFailure} \cup OtherOkResponses \cup
    {JsonOk([NoPayload EXCEPT !.ai_md = <<t>>]) : t \in AiTexts}

----------------------------------------------------------------------------
(* request() and the gateway functions called on their own *)

NoHttp == [fn |-> "none", resp |-> NetworkFailure, out |-> Pending]

\* everything fetch() may settle to for the three GET endpoints
AllResponses ==
    ErrorResponses \cup ReportResponses \cup AiResponses
        \cup UNION {AssessmentResponses(id) : id \in Ids}

\* request(path) settles
RequestCall(resp) ==
    /\ http' = [fn |-> "request", resp |-> resp, out |-> request(resp)]
    /\ UNCHANGED <<storeVars, viewVars, runVars, upload>>

\* getAssessmentReport(id) settles
ReportCall(resp) ==
    /\ http' = [fn |-> "getAssessmentReport", resp |-> resp,
                out |-> getAssessmentReport(resp)]
    /\ UNCHANGED <<storeVars, viewVars, runVars, upload>>

\* getAssessmentAI(id) settles
AiCall(resp) ==
    /\ http' = [fn |-> "getAssessmentAI", resp |-> resp,
                out |-> getAssessmentAI(resp)]
    /\ UNCHANGED <<storeVars, viewVars, runVars, upload>>

\* the form as it is before anything is typed or chosen
EmptyForm == [company |-> <<>>, industry |-> "", sales |-> FALSE, expenses |-> FALSE]

\* UploadPage as mounted: its state, the form handleSubmit last read, the
\* handleSubmit calls and createAssessment requests so far, the promise of
\* the last request and the route navigate() was called with
NoUpload ==
    [error |-> <<>>, loading |-> FALSE, form |-> EmptyForm, subs |-> 0,
     sent |-> 0, out |-> Unsent, navigated |-> <<>>]

InitRequest ==
    /\ storage = Absent
    /\ init0 = storage
    /\ log = <<>>
    /\ last = [op |-> "none", item |-> <<>>, threw |-> FALSE, by |-> 0,
               before |-> Absent, ret |-> <<>>]
    /\ data = <<>>
    /\ reportMd = ""
    /\ aiMd = ""
    /\ loading = TRUE
    /\ error = <<>>
    /\ routeId = <<>>
    /\ runs = <<>>
    /\ nRuns = 0
    /\ http = NoHttp
    /\ upload = NoUpload

NextRequest ==
    \/ \E resp \in AllResponses : RequestCall(resp)
    \/ \E resp \in AllResponses : ReportCall(resp)
    \/ \E resp \in AllResponses : AiCall(resp)

SpecRequest == InitRequest /\ [][NextRequest]_vars

----------------------------------------------------------------------------
(* The history store as the pages call it *)

RECURSIVE ListsOver(_, _)
\* the lists of at most n history items with pairwise different ids
ListsOver(ids, n) ==
    IF n = 0 \/ ids = {} THEN {<<>>}
    ELSE {<<>>} \cup
         UNION {{<<HistoryItem(i, c)>> \o rest :
                   c \in Companies, rest \in ListsOver(ids \ {i}, n - 1)} :
                i \in ids}

ValidStorages == {JSONstringify(l) : l \in ListsOver(Ids, MaxInitLen)}
CorruptStorages == {Unparseable} \cup {JsonText(t, <<>>) : t \in NonArrayTypes}
InitialStorages == {Absent, EmptyText} \cup ValidStorages \cup CorruptStorages

NoCall == [op |-> "none", item |-> <<>>, threw |-> FALSE, by |-> 0,
           before |-> Absent, ret |-> <<>>]

Record(op, item, threw, by, ret) ==
    /\ log' = Append(log, [op |-> op, item |-> item, threw |-> threw, by |-> by])
    /\ last' = [op |-> op, item |-> item, threw |-> threw, by |-> by,
                before |-> storage, ret |-> ret]

\* a caller evaluates addToHistory(item)
AddToHistoryCall(item) ==
    /\ Len(log) < MaxCalls
    /\ LET r == addToHistory(storage, item) IN
          /\ storage' = r.storage
          /\ Record("add", <<item>>, r.threw, 0, <<>>)
    /\ UNCHANGED <<init0, viewVars, runVars, pageVars>>

\* HistoryPage.handleClear, confirmed: clearHistory()
ClearHistoryCall ==
    /\ Len(log) < MaxCalls
    /\ storage' = clearHistory(storage)
    /\ Record("clear", <<>>, FALSE, 0, <<>>)
    /\ UNCHANGED <<init0, viewVars, runVars, pageVars>>

\* HistoryPage mount: setHistory(getHistory())
GetHistoryCall ==
    /\ Len(log) < MaxCalls
    /\ Record("get", <<>>, FALSE, 0, <<getHistory(storage)>>)
    /\ UNCHANGED <<storage, init0, viewVars, runVars, pageVars>>

ViewInit ==
    /\ data = <<>>
    /\ reportMd = ""
    /\ aiMd = ""
    /\ loading = TRUE
    /\ error = <<>>

StoreInit ==
    /\ storage \in InitialStorages
    /\ init0 = storage
    /\ log = <<>>
    /\ last = NoCall

InitStore ==
    /\ StoreInit
    /\ ViewInit
    /\ routeId = <<>>
    /\ runs = <<>>
    /\ nRuns = 0
    /\ http = NoHttp
    /\ upload = NoUpload

NextStore ==
    \/ \E item \in HistoryItems : AddToHistoryCall(item)
    \/ ClearHistoryCall
    \/ GetHistoryCall

SpecStore == InitStore /\ [][NextStore]_vars

----------------------------------------------------------------------------
(* ResultsPage: the result orchestration fetchData *)

\* err.message ignored: the fixed text whatever the rejection says
ErrorTextFixed(message) == "Failed to load assessment results."

\* promise.catch(err => '') left out: the promise is passed on as it is
CatchNone(p) == p

\* promise.catch(err => { console.warn(...); return ''; })
CatchEmpty(p) == IF p.st = "rejected" THEN Fulfilled(<<>>, "") ELSE p

\* Promise.all of two promises: rejected once either is rejected, fulfilled
\* once both are fulfilled
PromiseAll(p, q) ==
    IF p.st = "rejected" THEN p
    ELSE IF q.st = "rejected" THEN q
    ELSE IF p.st = "fulfilled" /\ q.st = "fulfilled" THEN Fulfilled(<<>>, "")
    ELSE Pending

\* the join awaited by fetchData
AuxJoin(run) == PromiseAll(CatchEmpty(run.report), CatchEmpty(run.ai))

FailedToLoad == "Failed to load assessment results."

\* err.message || 'Failed to load assessment results.'
ErrorText(message) == IF message = "" THEN FailedToLoad ELSE message

\* the object fetchData passes to addToHistory
Summary(assessment) ==
    [id |-> assessment.id, company |-> assessment.company,
     industry |-> assessment.industry, created_at |-> assessment.created_at]

\* fetchData issuing all three requests at once
NewRunParallel(id) ==
    [id |-> id, pc |-> "getAssessment", assessment |-> Pending,
     report |-> Pending, ai |-> Pending,
     sent |-> [assessment |-> 1, report |-> 1, ai |-> 1]]

NewRun(id) ==
    [id |-> id, pc |-> "getAssessment", assessment |-> Pending,
     report |-> Unsent, ai |-> Unsent,
     sent |-> [assessment |-> 1, report |-> 0, ai |-> 0]]

RunIds == 1..nRuns

\* the route parameter becomes id: the effect runs fetchData(), which calls
\* getAssessment(id) and suspends
Navigate(id) ==
    /\ nRuns < MaxRuns
    /\ routeId # <<id>>
    /\ routeId' = <<id>>
    /\ runs' = Append(runs, NewRun(id))
    /\ nRuns' = nRuns + 1
    /\ UNCHANGED <<storeVars, data, reportMd, aiMd, loading, error, pageVars>>

\* getAssessment settles, with a rejected request issued once more
AssessmentSettlesRetry(r, resp) ==
    /\ runs[r].pc = "getAssessment"
    /\ LET p == getAssessment(resp) IN
          IF p.st = "fulfilled"
          THEN /\ runs' = [runs EXCEPT ![r].pc = "aux",
                                       ![r].assessment = p,
                                       ![r].report = Pending,
                                       ![r].ai = Pending,
                                       ![r].sent.report = @ + 1,
                                       ![r].sent.ai = @ + 1]
               /\ UNCHANGED <<error, loading>>
          ELSE IF runs[r].sent.assessment < 2
          THEN /\ runs' = [runs EXCEPT ![r].sent.assessment = @ + 1]
               /\ UNCHANGED <<error, loading>>
          ELSE /\ runs' = [runs EXCEPT ![r].pc = "done", ![r].assessment = p]
               /\ error' = <<ErrorText(p.message)>>
               /\ loading' = FALSE
    /\ UNCHANGED <<storeVars, routeId, data, reportMd, aiMd, nRuns, pageVars>>

\* getAssessment settles, with a catch block that does not call setError
AssessmentSettlesSwallow(r, resp) ==
    /\ runs[r].pc = "getAssessment"
    /\ LET p == getAssessment(resp) IN
          IF p.st = "fulfilled"
          THEN /\ runs' = [runs EXCEPT ![r].pc = "aux",
                                       ![r].assessment = p,
                                       ![r].report = Pending,
                                       ![r].ai = Pending,
                                       ![r].sent.report = @ + 1,
                                       ![r].sent.ai = @ + 1]
               /\ UNCHANGED <<error, loading>>
          ELSE /\ runs' = [runs EXCEPT ![r].pc = "done", ![r].assessment = p]
               /\ error' = error
               /\ loading' = FALSE
    /\ UNCHANGED <<storeVars, routeId, data, reportMd, aiMd, nRuns, pageVars>>

\* getAssessment settles.  Fulfilled: both auxiliary requests are issued
\* and fetchData suspends on the join.  Rejected: catch and finally run.
AssessmentSettles(r, resp) ==
    /\ runs[r].pc = "getAssessment"
    /\ LET p == getAssessment(resp) IN
          IF p.st = "fulfilled"
          THEN /\ runs' = [runs EXCEPT ![r].pc = "aux",
                                       ![r].assessment = p,
                                       ![r].report = Pending,
                                       ![r].ai = Pending,
                                       ![r].sent.report = @ + 1,
                                       ![r].sent.ai = @ + 1]
               /\ UNCHANGED <<error, loading>>
          ELSE /\ runs' = [runs EXCEPT ![r].pc = "done", ![r].assessment = p]
               /\ error' = <<ErrorText(p.message)>>
               /\ loading' = FALSE
    /\ UNCHANGED <<storeVars, routeId, data, reportMd, aiMd, nRuns, pageVars>>

\* getAssessmentReport settles
ReportSettles(r, resp) ==
    /\ runs[r].pc = "aux"
    /\ runs[r].report.st = "pending"
    /\ runs' = [runs EXCEPT ![r].report = getAssessmentReport(resp)]
    /\ UNCHANGED <<storeVars, viewVars, nRuns, pageVars>>

\* getAssessmentAI settles
AiSettles(r, resp) ==
    /\ runs[r].pc = "aux"
    /\ runs[r].ai.st = "pending"
    /\ runs' = [runs EXCEPT ![r].ai = getAssessmentAI(resp)]
    /\ UNCHANGED <<storeVars, viewVars, nRuns, pageVars>>

\* fetchData resuming without its finally block
ResumeNoFinally(r) ==
    /\ runs[r].pc = "aux"
    /\ LET join == AuxJoin(runs[r]) IN
          /\ join.st # "pending"
          /\ IF join.st = "fulfilled"
             THEN LET assessment == runs[r].assessment.rec[1]
                      item == Summary(assessment)
                      added == addToHistory(storage, item)
                  IN /\ data' = <<assessment>>
                     /\ reportMd' = CatchEmpty(runs[r].report).text
                     /\ aiMd' = CatchEmpty(runs[r].ai).text
                     /\ storage' = added.storage
                     /\ Record("add", <<item>>, added.threw, r, <<>>)
                     /\ error' = IF added.threw
                                 THEN <<ErrorText(added.message)>>
                                 ELSE error
             ELSE /\ error' = <<ErrorText(join.message)>>
                  /\ UNCHANGED <<data, reportMd, aiMd, storage, log, last>>
    /\ loading' = loading
    /\ runs' = [runs EXCEPT ![r].pc = "done"]
    /\ UNCHANGED <<init0, routeId, nRuns, pageVars>>

\* the join has settled and fetchData resumes: the three setState calls,
\* addToHistory, then finally; a throw in between goes to catch
Resume(r) ==
    /\ runs[r].pc = "aux"
    /\ LET join == AuxJoin(runs[r]) IN
          /\ join.st # "pending"
          /\ IF join.st = "fulfilled"
             THEN LET assessment == runs[r].assessment.rec[1]
                      item == Summary(assessment)
                      added == addToHistory(storage, item)
                  IN /\ data' = <<assessment>>
                     /\ reportMd' = CatchEmpty(runs[r].report).text
                     /\ aiMd' = CatchEmpty(runs[r].ai).text
                     /\ storage' = added.storage
                     /\ Record("add", <<item>>, added.threw, r, <<>>)
                     /\ error' = IF added.threw
                                 THEN <<ErrorText(added.message)>>
                                 ELSE error
             ELSE /\ error' = <<ErrorText(join.message)>>
                  /\ UNCHANGED <<data, reportMd, aiMd, storage, log, last>>
    /\ loading' = FALSE
    /\ runs' = [runs EXCEPT ![r].pc = "done"]
    /\ UNCHANGED <<init0, routeId, nRuns, pageVars>>

\* the persisted values the orchestration is started on
ResultStorages ==
    {Absent, Unparseable, JsonText("null", <<>>), JsonText("object", <<>>),
     JSONstringify(<<HistoryItem("a", "X")>>),
     JSONstringify(<<HistoryItem("b", "Y"), HistoryItem("a", "X")>>)}

Init ==
    /\ storage \in ResultStorages
    /\ init0 = storage
    /\ log = <<>>
    /\ last = NoCall
    /\ ViewInit
    /\ routeId = <<>>
    /\ runs = <<>>
    /\ nRuns = 0
    /\ http = NoHttp
    /\ upload = NoUpload

Next ==
    \/ \E id \in Ids : Navigate(id)
    \/ \E r \in RunIds : \E resp \in AssessmentResponses(runs[r].id) :
          AssessmentSettles(r, resp)
    \/ \E r \in RunIds : \E resp \in ReportResponses : ReportSettles(r, resp)
    \/ \E r \in RunIds : \E resp \in AiResponses : AiSettles(r, resp)
    \/ \E r \in RunIds : Resume(r)

Spec == Init /\ [][Next]_vars

(* Every issued request settles, and a resumed fetchData runs on *)

CanonicalStep(r) ==
    /\ r \in RunIds
    /\ \E resp \in AssessmentResponses(runs[r].id) : AssessmentSettles(r, resp)
ReportStep(r) ==
    /\ r \in RunIds
    /\ \E resp \in ReportResponses : ReportSettles(r, resp)
AiStep(r) ==
    /\ r \in RunIds
    /\ \E resp \in AiResponses : AiSettles(r, resp)
ResumeOf(r) ==
    /\ r \in RunIds
    /\ Resume(r)

Fairness ==
    \A r \in 1..MaxRuns :
        /\ WF_vars(CanonicalStep(r))
        /\ WF_vars(ReportStep(r))
        /\ WF_vars(AiStep(r))
        /\ WF_vars(ResumeOf(r))

\* the persisted values the settling runs are started on
LiveStorages ==
    {Absent, JsonText("null", <<>>), JSONstringify(<<HistoryItem("a", "X")>>)}

InitLive ==
    /\ Init
    /\ storage \in LiveStorages

SpecLive == InitLive /\ [][Next]_vars /\ Fairness

\* the results view opened on a history that is absent or intact
NavStorages == {Absent, JSONstringify(<<HistoryItem("a", "X")>>)}

InitNav ==
    /\ Init
    /\ storage \in NavStorages

SpecNav == InitNav /\ [][Next]_vars

----------------------------------------------------------------------------
(* UploadPage: handleSubmit *)

MaxNameLen == 3
MaxSubmits == 2

RECURSIVE SeqsUpTo(_, _)
SeqsUpTo(chars, n) ==
    IF n = 0 THEN {<<>>}
    ELSE LET shorter == SeqsUpTo(chars, n - 1) IN
         shorter \cup {Append(t, c) : t \in shorter, c \in chars}

\* what can be typed into the company field, character by character
CompanyNames == SeqsUpTo({" ", "a"}, MaxNameLen)
Industries == {"", "Retail"}
Forms ==
    [company : CompanyNames, industry : Industries,
     sales : BOOLEAN, expenses : BOOLEAN]

\* company.trim() taken as no trimming at all
TrimNone(t) == t

RECURSIVE TrimStart(_)
TrimStart(t) ==
    IF t # <<>> /\ Head(t) = " " THEN TrimStart(Tail(t)) ELSE t
RECURSIVE TrimEnd(_)
TrimEnd(t) ==
    IF t # <<>> /\ t[Len(t)] = " " THEN TrimEnd(SubSeq(t, 1, Len(t) - 1)) ELSE t
\* String.prototype.trim
Trim(t) == TrimEnd(TrimStart(t))

MinCompanyLen == 2
CompanyTooShort == "Company name must be at least 2 characters."
SelectIndustry == "Please select an industry."
FilesRequired == "Sales and Expenses files are required."
FailedToCreate == "Failed to create assessment. Please try again."

\* the validation of handleSubmit: <<>> when the form passes, else the message
Validation(form) ==
    IF Len(Trim(form.company)) < MinCompanyLen THEN <<CompanyTooShort>>
    ELSE IF form.industry = "" THEN <<SelectIndustry>>
    ELSE IF ~form.sales \/ ~form.expenses THEN <<FilesRequired>>
    ELSE <<>>

\* createAssessment(formData)
createAssessment(resp) ==
    LET r == request(resp) IN
    IF r.ok THEN Fulfilled(r.value.fields.assessment, "") ELSE Failed(r.message)

\* POST /api/assessments
CreateResponses ==
    {NetworkFailure, ServerError,
     Response(FALSE, 422, "Unprocessable Entity", TRUE,
              Body(TRUE, DetailString("bad file"), NoPayload))} \cup
    {JsonOk([NoPayload EXCEPT !.assessment = <<AssessmentResponse(id, c)>>]) :
        id \in Ids, c \in Companies}

\* the caller recorded for the inserts of handleSubmit
UploadCaller == 0 - 1

\* the form is submitted: handleSubmit up to its await.  The submit button
\* is disabled while loading, and the page is left after navigate().
Submit(form) ==
    /\ ~upload.loading
    /\ upload.navigated = <<>>
    /\ upload.subs < MaxSubmits
    /\ LET invalid == Validation(form) IN
          IF invalid # <<>>
          THEN upload' = [upload EXCEPT !.error = invalid, !.form = form,
                                        !.subs = @ + 1]
          ELSE upload' = [upload EXCEPT !.error = <<>>, !.form = form,
                                        !.subs = @ + 1, !.loading = TRUE,
                                        !.sent = @ + 1, !.out = Pending]
    /\ UNCHANGED <<storeVars, viewVars, runVars, http>>

\* createAssessment settles and handleSubmit resumes: addToHistory and
\* navigate, or catch; then finally
CreateSettles(resp) ==
    /\ upload.loading
    /\ upload.out.st = "pending"
    /\ LET p == createAssessment(resp) IN
          IF p.st = "fulfilled"
          THEN LET response == p.rec[1]
                   item == Summary(response)
                   added == addToHistory(storage, item)
               IN /\ storage' = added.storage
                  /\ Record("add", <<item>>, added.threw, UploadCaller, <<>>)
                  /\ upload' =
                       [upload EXCEPT
                          !.out = p,
                          !.loading = FALSE,
                          !.error = IF added.threw
                                    THEN <<IF added.message = ""
                                           THEN FailedToCreate
                                           ELSE added.message>>
                                    ELSE @,
                          !.navigated = IF added.threw THEN @
                                        ELSE <<response.id>>]
          ELSE /\ upload' =
                    [upload EXCEPT
                       !.out = p,
                       !.loading = FALSE,
                       !.error = <<IF p.message = "" THEN FailedToCreate
                                   ELSE p.message>>]
               /\ UNCHANGED <<storage, log, last>>
    /\ UNCHANGED <<init0, viewVars, runVars, http>>

\* the upload route is opened again after handleSubmit navigated away
OpenUpload ==
    /\ upload.navigated # <<>>
    /\ upload' = [upload EXCEPT !.error = <<>>, !.loading = FALSE,
                                !.form = EmptyForm, !.out = Unsent,
                                !.navigated = <<>>]
    /\ UNCHANGED <<storeVars, viewVars, runVars, http>>

InitUpload ==
    /\ storage \in ResultStorages
    /\ init0 = storage
    /\ log = <<>>
    /\ last = NoCall
    /\ ViewInit
    /\ routeId = <<>>
    /\ runs = <<>>
    /\ nRuns = 0
    /\ http = NoHttp
    /\ upload = NoUpload

NextUpload ==
    \/ \E form \in Forms : Submit(form)
    \/ \E resp \in CreateResponses : CreateSettles(resp)
    \/ OpenUpload

SpecUpload == InitUpload /\ [][NextUpload]_vars

----------------------------------------------------------------------------
(* Result views and upload submissions side by side, as in two tabs on *)
(* the same localStorage                                                *)

MixedStorages ==
    {Absent, JsonText("null", <<>>),
     JSONstringify(<<HistoryItem("b", "Y"), HistoryItem("a", "X")>>)}

\* the forms and answers the submissions are exercised with
MixedForms ==
    {EmptyForm,
     [company |-> <<"a", "a">>, industry |-> "Retail",
      sales |-> TRUE, expenses |-> TRUE]}
MixedCreateResponses ==
    {NetworkFailure} \cup
    {JsonOk([NoPayload EXCEPT !.assessment = <<AssessmentResponse(id, "Y")>>]) :
        id \in {"a", "c"}}
MixedAssessmentResponses(id) ==
    {NetworkFailure,
     JsonOk([NoPayload EXCEPT !.assessment = <<AssessmentResponse(id, "X")>>])}
MixedTextResponses ==
    {NetworkFailure, JsonOk([NoPayload EXCEPT !.report_md = <<"# report">>,
                                              !.ai_md = <<"# ai">>])}

InitMixed ==
    /\ Init
    /\ storage \in MixedStorages

NextMixed ==
    \/ \E id \in Ids : Navigate(id)
    \/ \E r \in RunIds : \E resp \in MixedAssessmentResponses(runs[r].id) :
          AssessmentSettles(r, resp)
    \/ \E r \in RunIds : \E resp \in MixedTextResponses : ReportSettles(r, resp)
    \/ \E r \in RunIds : \E resp \in MixedTextResponses : AiSettles(r, resp)
    \/ \E r \in RunIds : Resume(r)
    \/ \E form \in MixedForms : Submit(form)
    \/ \E resp \in MixedCreateResponses : CreateSettles(resp)
    \/ OpenUpload

SpecMixed == InitMixed /\ [][NextMixed]_vars

----------------------------------------------------------------------------
(* Properties of the history store, checked under SpecStore *)

StartedEmpty == init0 \in {Absent, JSONstringify(<<>>)}
Stored == getHistory(storage)
Adds == SelectSeq(log, LAMBDA c : c.op = "add")
Inserted == [k \in 1..Len(Adds) |-> Adds[k].item[1]]

\* C1: starting from an empty or absent history, after any sequence of
\* addToHistory and clearHistory calls the list getHistory() returns holds
\* at most one entry for any id.
C1_AtMostOneEntryPerId ==
    StartedEmpty => /\ Stored.type = "array"
                    /\ NoDuplicateIds(Stored.items)

\* an id was inserted twice and the list holds it next to another id
C1_Witness ==
    /\ StartedEmpty
    /\ \E j, k \in 1..Len(Adds) : j < k /\ Adds[j].item[1].id = Adds[k].item[1].id
    /\ Len(Stored.items) = 2

\* the latest call was addToHistory(item) on a list that held item.id
ReinsertedPresentId ==
    /\ last.op = "add"
    /\ getHistory(last.before).type = "array"
    /\ CountId(getHistory(last.before).items, last.item[1].id) >= 1

\* C6: addToHistory with an id already in the history leaves exactly one
\* entry for that id, carrying the new fields, at index 0 of getHistory().
C6_ReinsertReplacesAtFront ==
    ReinsertedPresentId =>
        /\ ~last.threw
        /\ Stored.type = "array"
        /\ CountId(Stored.items, last.item[1].id) = 1
        /\ Stored.items[1] = last.item[1]

\* the old entry had other fields and was not at the front
C6_Witness ==
    /\ ReinsertedPresentId
    /\ LET old == getHistory(last.before).items IN
          /\ Len(old) = 2
          /\ old[2].id = last.item[1].id
          /\ old[2].company # last.item[1].company

\* C7: for any corrupted persisted value getHistory() returns the empty
\* list, and a following addToHistory(item) does not throw and leaves the
\* history equal to [item].
C7_CorruptedIsEmptyThenInsertWorks ==
    /\ (last.op = "get" /\ last.before \in CorruptStorages) =>
          last.ret = <<EmptyArray>>
    /\ (last.op = "add" /\ last.before \in CorruptStorages) =>
          /\ ~last.threw
          /\ Stored = [type |-> "array", items |-> <<last.item[1]>>]

\* only inserts (and reads) were made, all with different ids
OnlyDistinctInserts ==
    /\ \A k \in 1..Len(log) : log[k].op \in {"add", "get"}
    /\ \A j, k \in 1..Len(Adds) : j # k => Adds[j].item[1].id # Adds[k].item[1].id

\* C8: from an empty history, N inserts with pairwise distinct ids read
\* back as exactly those N summaries, fields unchanged, in reverse
\* insertion order.
C8_RoundTrip ==
    (StartedEmpty /\ OnlyDistinctInserts) =>
        Stored = [type |-> "array", items |-> Reverse(Inserted)]

\* three summaries were inserted and then read
C8_Witness ==
    /\ StartedEmpty
    /\ OnlyDistinctInserts
    /\ Len(Adds) = 3
    /\ last.op = "get"
    /\ last.ret = <<[type |-> "array", items |-> Reverse(Inserted)]>>

\* C9: whatever was persisted before, clearHistory() followed by
\* getHistory() returns the empty list.
C9_ClearThenReadEmpty ==
    /\ last.op = "clear" => Stored = EmptyArray
    /\ (last.op = "get" /\ Len(log) >= 2 /\ log[Len(log) - 1].op = "clear") =>
          last.ret = <<EmptyArray>>

\* clear then read, on a corrupted value and on a list
C9_Witness ==
    /\ last.op = "get"
    /\ Len(log) = 2
    /\ log[1].op = "clear"
    /\ init0 \in CorruptStorages \cup {s \in ValidStorages : Len(s.items) = 2}

----------------------------------------------------------------------------
(* Properties of the result orchestration, checked under Spec *)

Settled(p) == p.st \in {"fulfilled", "rejected"}
AddsBy(r) == SelectSeq(log, LAMBDA c : c.op = "add" /\ c.by = r)

\* run r takes the step in which its getAssessment rejection is handled
CanonicalRejectStep(r) ==
    /\ r \in RunIds
    /\ runs[r].pc = "getAssessment"
    /\ runs'[r].pc = "done"

\* run r takes the step that follows the join of its auxiliary fetches
ResumeStep(r) ==
    /\ r \in RunIds
    /\ runs[r].pc = "aux"
    /\ runs'[r].pc = "done"

\* C2: when getAssessment rejects, the error shown is the rejection's
\* message, that step leaves the persisted history as it was, and the
\* orchestration never calls addToHistory.
C2_CanonicalFailureShowsMessageNoWrite ==
    /\ [][\A r \in 1..MaxRuns : CanonicalRejectStep(r) =>
            /\ runs'[r].assessment.st = "rejected"
            /\ error' = <<runs'[r].assessment.message>>
            /\ storage' = storage
            /\ log' = log]_vars
    /\ [](\A r \in RunIds : runs[r].assessment.st = "rejected" => AddsBy(r) = <<>>)

\* the backend answered 404 with detail "not found" over a stored history
C2_Witness ==
    \E r \in RunIds :
        /\ runs[r].pc = "done"
        /\ runs[r].assessment = Failed("not found")
        /\ error = <<"not found">>
        /\ log = <<>>
        /\ storage = JSONstringify(<<HistoryItem("a", "X")>>)

\* what a slot of the view must hold for an auxiliary promise
SlotText(p) == IF p.st = "rejected" THEN "" ELSE p.text

\* C3: when getAssessment resolved, whatever the two auxiliary fetches did,
\* a rejected one leaves "" in its own slot only, the other slot holds what
\* its fetch resolved to, no error is surfaced, the record is exposed and a
\* history entry for the id is recorded.
C3_AuxiliaryFailuresAreIsolated ==
    [][\A r \in 1..MaxRuns : ResumeStep(r) =>
         /\ reportMd' = SlotText(runs[r].report)
         /\ aiMd' = SlotText(runs[r].ai)
         /\ error' = error
         /\ data' = runs[r].assessment.rec
         /\ getHistory(storage').type = "array"
         /\ CountId(getHistory(storage').items, runs[r].id) = 1]_vars

\* C4: the view is in the error state only if a getAssessment failed; a run
\* whose getAssessment resolved ends with the summary of the fetched record
\* inserted into the history.
C4_OnlyCanonicalFailureIsFatal ==
    /\ error # <<>> => \E r \in RunIds : runs[r].assessment.st = "rejected"
    /\ \A r \in RunIds :
          (runs[r].pc = "done" /\ runs[r].assessment.st = "fulfilled") =>
              /\ Len(AddsBy(r)) = 1
              /\ ~AddsBy(r)[1].threw
              /\ AddsBy(r)[1].item = <<Summary(runs[r].assessment.rec[1])>>

\* C5: when the three fetches succeed, the record and both texts are
\* exposed as the gateway returned them, and afterwards the history holds
\* exactly one entry for the id, at the front.
C5_AllSucceed ==
    [][\A r \in 1..MaxRuns :
         (/\ ResumeStep(r)
          /\ runs[r].report.st = "fulfilled"
          /\ runs[r].ai.st = "fulfilled") =>
             /\ data' = runs[r].assessment.rec
             /\ reportMd' = runs[r].report.text
             /\ aiMd' = runs[r].ai.text
             /\ getHistory(storage').type = "array"
             /\ CountId(getHistory(storage').items, runs[r].id) = 1
             /\ getHistory(storage').items[1].id = runs[r].id]_vars

\* C10: the orchestration proceeds only when both auxiliary fetches have
\* settled: while one is pending the join is pending, also when the other
\* was rejected, and nothing is exposed or inserted before.
C10_SettleAllJoin ==
    \A r \in RunIds :
        /\ (runs[r].pc = "aux" /\ ~(Settled(runs[r].report) /\ Settled(runs[r].ai)))
               => AuxJoin(runs[r]).st = "pending"
        /\ runs[r].pc = "aux" => AddsBy(r) = <<>>
        /\ (runs[r].pc = "done" /\ runs[r].assessment.st = "fulfilled")
               => Settled(runs[r].report) /\ Settled(runs[r].ai)

\* one auxiliary fetch was rejected and the run still waits for the other
C10_Witness ==
    \E r \in RunIds :
        /\ runs[r].pc = "aux"
        /\ runs[r].report.st = "rejected"
        /\ runs[r].ai.st = "pending"
        /\ loading
        /\ data = <<>>

----------------------------------------------------------------------------
(* Properties of request() and the gateway, checked under SpecRequest *)

StatusMessage(resp) ==
    "Error " \o ToString(resp.status) \o ": " \o resp.statusText

\* the detail of a JSON body as a message: a string as it is, anything
\* else as its JSON text
DetailAsMessage(detail) == detail[1].text

\* the detail values JavaScript takes for false: "", 0, false and null
FalsyDetails ==
    {DetailString(""), DetailOther("number", "0"),
     DetailOther("boolean", "false"), DetailOther("null", "null")}

FailedStatus == http.fn = "request" /\ http.resp.net /\ ~http.resp.ok

\* C11 as stated: for a non-success status request() rejects, with the
\* body's detail field as message whenever the JSON body contains one, and
\* with "Error <status>: <statusText>" otherwise.
C11_MessageIsDetailWheneverPresent ==
    FailedStatus =>
        /\ ~http.out.ok
        /\ http.out.message =
              IF http.resp.body.json /\ http.resp.body.detail # <<>>
              THEN DetailAsMessage(http.resp.body.detail)
              ELSE StatusMessage(http.resp)

\* C11 as amended: for a non-success status request() rejects; the message
\* is the body's detail field when the JSON body contains one that
\* JavaScript takes for true, and "Error <status>: <statusText>" when the
\* body is no JSON, has no detail field, or has a detail that is "", 0,
\* false or null.
C11_MessageIsTruthyDetail ==
    FailedStatus =>
        /\ ~http.out.ok
        /\ http.out.message =
              IF /\ http.resp.body.json
                 /\ http.resp.body.detail # <<>>
                 /\ http.resp.body.detail \notin FalsyDetails
              THEN DetailAsMessage(http.resp.body.detail)
              ELSE StatusMessage(http.resp)

\* a structured detail was rejected with its JSON text as message
C11_Witness ==
    /\ FailedStatus
    /\ http.resp.body.json
    /\ http.resp.body.detail = DetailObject("{\"loc\":\"id\"}")
    /\ http.out = Rejected("{\"loc\":\"id\"}")

\* the text field a gateway function reads from a response
TextField(fn, resp) ==
    IF fn = "getAssessmentReport" THEN resp.body.payload.report_md
    ELSE resp.body.payload.ai_md

----------------------------------------------------------------------------
(* Requests and termination of the result orchestration *)

\* C13: nothing is retried: a run issues one request to the assessment
\* endpoint and at most one to each of the report and ai endpoints, also
\* when any of them fails.
C13_NoRetry ==
    \A r \in RunIds :
        /\ runs[r].sent.assessment = 1
        /\ runs[r].sent.report = (IF runs[r].report.st = "unsent" THEN 0 ELSE 1)
        /\ runs[r].sent.ai = (IF runs[r].ai.st = "unsent" THEN 0 ELSE 1)

\* a run ended after both auxiliary requests failed, or after the
\* assessment request failed, with one request each
C13_Witness ==
    /\ nRuns = 2
    /\ runs[1].pc = "done" /\ runs[1].assessment.st = "rejected"
    /\ runs[1].sent = [assessment |-> 1, report |-> 0, ai |-> 0]
    /\ runs[2].pc = "done"
    /\ runs[2].report.st = "rejected" /\ runs[2].ai.st = "rejected"
    /\ runs[2].sent = [assessment |-> 1, report |-> 1, ai |-> 1]

\* C14: while no getAssessment has resolved, the record stays none and
\* both texts stay ""; a failed getAssessment leaves the error set.
C14_NoPartialStateOnFailure ==
    /\ (\A r \in RunIds : runs[r].assessment.st # "fulfilled") =>
          /\ data = <<>>
          /\ reportMd = ""
          /\ aiMd = ""
    /\ (\E r \in RunIds : runs[r].assessment.st = "rejected") => error # <<>>

\* the only run failed at getAssessment
C14_Witness ==
    /\ nRuns = 1
    /\ runs[1].pc = "done"
    /\ runs[1].assessment = Failed("Error 500: Internal Server Error")
    /\ error = <<"Error 500: Internal Server Error">>
    /\ data = <<>> /\ reportMd = "" /\ aiMd = ""
    /\ ~loading

\* C15: the report and ai requests of a run are issued only once its
\* getAssessment has resolved; after a rejection neither is ever issued.
C15_AuxiliaryAfterCanonical ==
    \A r \in RunIds :
        /\ (runs[r].sent.report > 0 \/ runs[r].sent.ai > 0
               \/ runs[r].report.st # "unsent" \/ runs[r].ai.st # "unsent")
              => runs[r].assessment.st = "fulfilled"
        /\ runs[r].assessment.st = "rejected" =>
              /\ runs[r].sent.report = 0 /\ runs[r].sent.ai = 0
              /\ runs[r].report = Unsent /\ runs[r].ai = Unsent

\* one run was rejected and is over, another has its auxiliary requests out
C15_Witness ==
    /\ nRuns = 2
    /\ runs[1].pc = "done" /\ runs[1].assessment.st = "rejected"
    /\ runs[1].sent.report = 0 /\ runs[1].sent.ai = 0
    /\ runs[2].pc = "aux" /\ runs[2].sent.report = 1 /\ runs[2].sent.ai = 1

RunOver(r) ==
    /\ nRuns >= r
    /\ runs[r].pc = "done"
    /\ ~loading
    /\ (data # <<>> \/ error # <<>>)

----------------------------------------------------------------------------
(* UploadPage.handleSubmit *)

\* the length of t without its leading and trailing blanks
TrimmedLen(t) ==
    LET solid == {i \in 1..Len(t) : t[i] # " "} IN
    IF solid = {} THEN 0
    ELSE (CHOOSE i \in solid : \A j \in solid : j <= i)
         - (CHOOSE i \in solid : \A j \in solid : i <= j) + 1

Complete(form) ==
    /\ TrimmedLen(form.company) >= 2
    /\ form.industry # ""
    /\ form.sales
    /\ form.expenses

SubmitStep == upload'.subs = upload.subs + 1

\* C17: handleSubmit issues the createAssessment request only for a form
\* whose trimmed company name has at least 2 characters, with an industry
\* and both the sales and the expenses file; for any other form it issues
\* no request, sets an error and leaves the history alone.  Only a step
\* that resolves createAssessment inserts into the history.
C17_SubmitValidates ==
    [][/\ upload'.sent > upload.sent => SubmitStep /\ Complete(upload'.form)
       /\ SubmitStep /\ ~Complete(upload'.form) =>
             /\ upload'.sent = upload.sent
             /\ upload'.error # <<>>
             /\ ~upload'.loading
             /\ storage' = storage
             /\ log' = log
       /\ log' # log =>
             /\ upload.out.st = "pending"
             /\ upload'.out.st = "fulfilled"
             /\ Len(log') = Len(log) + 1
             /\ log'[Len(log')].item = <<Summary(upload'.out.rec[1])>>
             /\ upload'.sent = upload.sent]_vars

\* a form with a padded one-letter name was turned down after an earlier
\* submission had gone through and inserted its entry
C17_Witness ==
    /\ upload.subs = 2
    /\ upload.sent = 1
    /\ upload.form.company = <<" ", "a", " ">>
    /\ upload.form.industry = "Retail" /\ upload.form.sales /\ upload.form.expenses
    /\ upload.error = <<CompanyTooShort>>
    /\ Len(log) = 1 /\ ~log[1].threw
    /\ Stored = [type |-> "array", items |-> <<log[1].item[1]>>]

----------------------------------------------------------------------------
(* The results view after its id changed *)

LatestRun == runs[nRuns]
AllRunsOver == \A r \in RunIds : runs[r].pc = "done"

\* C18: once every started run of the results view has settled, the
\* record and the two texts shown are those of the latest id, and an error
\* is shown only if the latest id's getAssessment failed.
C18_LatestIdWins ==
    (nRuns >= 1 /\ AllRunsOver) =>
        /\ LatestRun.assessment.st = "fulfilled" =>
              /\ data = LatestRun.assessment.rec
              /\ reportMd = CatchEmpty(LatestRun.report).text
              /\ aiMd = CatchEmpty(LatestRun.ai).text
        /\ LatestRun.assessment.st = "rejected" => data = <<>>
        /\ error # <<>> => LatestRun.assessment.st = "rejected"

----------------------------------------------------------------------------
(* Interleaved orchestrations on one history *)

InsertedIds == {Inserted[k].id : k \in 1..Len(Inserted)}
\* the positions of the last insert of each inserted id
LastInserts ==
    {k \in 1..Len(Inserted) :
        \A j \in (k + 1)..Len(Inserted) : Inserted[j].id # Inserted[k].id}

RECURSIVE Descending(_)
Descending(positions) ==
    IF positions = {} THEN <<>>
    ELSE LET m == CHOOSE k \in positions : \A j \in positions : j <= k IN
         <<Inserted[m]>> \o Descending(positions \ {m})

InitialList ==
    LET h == getHistory(init0) IN IF h.type = "array" THEN h.items ELSE <<>>
Untouched == SelectSeq(InitialList, LAMBDA x : x.id \notin InsertedIds)

AllSettled == AllRunsOver /\ ~upload.loading

\* C19: after interleaved result views and upload submissions have all
\* settled, the history holds one entry for every id addToHistory was
\* called with, the ids ordered by their last insert, newest first, ahead
\* of the entries that were there before and were not inserted again.
C19_NoInsertLost ==
    (AllSettled /\ Adds # <<>>) =>
        Stored = [type |-> "array", items |-> Descending(LastInserts) \o Untouched]

----------------------------------------------------------------------------
(* What addToHistory and getHistory leave alone *)

ListOf(st) ==
    LET h == getHistory(st) IN IF h.type = "array" THEN h.items ELSE <<>>
Others(list, id) == SelectSeq(list, LAMBDA x : x.id # id)

\* C20: addToHistory(item) keeps the entries of other ids as they were and
\* in their order, and makes the list one longer when item.id was absent
\* and as long as before when it was present; getHistory() leaves the
\* persisted value as it is.
C20_FrameOfInsertAndRead ==
    /\ last.op = "add" =>
          LET item == last.item[1]
              old == ListOf(last.before)
          IN /\ Stored.type = "array"
             /\ Others(Stored.items, item.id) = Others(old, item.id)
             /\ Len(Stored.items) =
                   Len(old) + (IF CountId(old, item.id) = 0 THEN 1 ELSE 0)
    /\ last.op = "get" => storage = last.before

====
